---- MODULE Spec2Model ----
(***************************************************************************)
(* A model of src/main.py: the /search handler (price-band resolution with *)
(* extract_price_gemini) and the scraper get_cars (pagination, scrolling,  *)
(* per-card extraction and price filtering).                               *)
(*                                                                         *)
(* Texts are sequences of one-character strings.  "TAB" stands for a       *)
(* whitespace character other than the space, "SUP2" for U+00B2, a         *)
(* character for which str.isdigit() is true and int() raises ValueError.  *)
(***************************************************************************)
EXTENDS Integers, Sequences, FiniteSets, TLC

\* Python's None and a present value: an optional value is a sequence of
\* length 0 or 1
None == <<>>
Some(v) == <<v>>
Val(o) == o[1]

\* ------------------------------------------------------------------ texts

DecDigits == {"0", "1", "2", "3", "4", "5", "6", "7", "8", "9"}

\* the value int() gives a decimal digit
DigitVal(c) ==
    CASE c = "0" -> 0 [] c = "1" -> 1 [] c = "2" -> 2 [] c = "3" -> 3
      [] c = "4" -> 4 [] c = "5" -> 5 [] c = "6" -> 6 [] c = "7" -> 7
      [] c = "8" -> 8 [] c = "9" -> 9

\* str.isspace() of one character
IsSpaceChar(c) == c \in {" ", "TAB"}

\* str.isdigit() of one character: the decimal digits and digit-like
\* characters such as U+00B2
IsDigitChar(c) == c \in DecDigits \cup {"SUP2"}

\* what the regular expression \d matches
IsReDigit(c) == c \in DecDigits

\* str.upper() of one character
UpperChar(c) ==
    CASE c = "n" -> "N" [] c = "u" -> "U" [] c = "l" -> "L" [] c = "a" -> "A"
      [] c = "i" -> "I" [] c = "o" -> "O" [] c = "s" -> "S" [] c = "b" -> "B"
      [] OTHER -> c

\* str.upper()
Upper(s) == [k \in 1..Len(s) |-> UpperChar(s[k])]

RECURSIVE LStrip(_)
LStrip(s) == IF s # <<>> /\ IsSpaceChar(Head(s)) THEN LStrip(Tail(s)) ELSE s

RECURSIVE RStrip(_)
RStrip(s) ==
    IF s # <<>> /\ IsSpaceChar(s[Len(s)]) THEN RStrip(SubSeq(s, 1, Len(s) - 1)) ELSE s

\* str.strip()
Strip(s) == RStrip(LStrip(s))

\* s.replace(" ", ""): only the space character is removed
RECURSIVE RemoveSpaces(_)
RemoveSpaces(s) ==
    IF s = <<>> THEN <<>>
    ELSE IF Head(s) = " " THEN RemoveSpaces(Tail(s))
    ELSE <<Head(s)>> \o RemoveSpaces(Tail(s))

\* str.isdigit(): non-empty and every character a digit character
IsDigit(s) == s # <<>> /\ \A k \in 1..Len(s) : IsDigitChar(s[k])

\* int(s) of a text of decimal digits
RECURSIVE DecValue(_)
DecValue(s) ==
    IF s = <<>> THEN 0 ELSE 10 * DecValue(SubSeq(s, 1, Len(s) - 1)) + DigitVal(s[Len(s)])

\* int(s) raises ValueError unless s is a non-empty text of decimal digits
IntRaises(s) == s = <<>> \/ \E k \in 1..Len(s) : s[k] \notin DecDigits

\* the longest prefix of s made of \d characters
RECURSIVE DigitPrefix(_)
DigitPrefix(s) ==
    IF s # <<>> /\ IsReDigit(Head(s)) THEN <<Head(s)>> \o DigitPrefix(Tail(s)) ELSE <<>>

\* re.search(r"\d+", s): the leftmost longest digit run; the empty text
\* stands for "no match" (a match of \d+ is never empty)
NoMatch == <<>>
RECURSIVE ReSearchDigits(_)
ReSearchDigits(s) ==
    IF s = <<>> THEN NoMatch
    ELSE IF IsReDigit(Head(s)) THEN DigitPrefix(s)
    ELSE ReSearchDigits(Tail(s))

\* parse_price_to_int: price_text is an optional text
parse_price_to_int(price_text) ==
    IF price_text = None \/ Val(price_text) = <<>> THEN None
    ELSE LET m == ReSearchDigits(RemoveSpaces(Val(price_text)))
         IN  IF m # NoMatch THEN Some(DecValue(m)) ELSE None

\* ------------------------------------------------- extract_price_gemini

\* The outcome of model.generate_content(prompt) and of reading
\* response.text: raises = TRUE when either raises (network, quota, a blocked
\* response); otherwise text is response.text, None or a text.
LlmOutcome(raises, text) == [raises |-> raises, text |-> text]

NULL == <<"N", "U", "L", "L">>

\* The body of the try block: the exception it ends with ("" for none) and
\* the value it returns.
GeminiTryBody(llm) ==
    IF llm.raises THEN [exc |-> "APIError", value |-> None]
    ELSE LET result == Strip(IF llm.text = None THEN <<>> ELSE Val(llm.text))
         IN  IF Upper(result) = NULL THEN [exc |-> "", value |-> None]
             ELSE LET m == ReSearchDigits(result)
                  IN  IF m = NoMatch
                      THEN [exc |-> "AttributeError", value |-> None]
                      ELSE [exc |-> "", value |-> Some(DecValue(m))]

\* the except clause catching the failed model call alone
extract_price_gemini_CatchApiError(user_message, llm) ==
    LET body == GeminiTryBody(llm)
    IN  IF body.exc = "APIError"
        THEN [raised |-> FALSE, value |-> None]
        ELSE [raised |-> body.exc # "", value |-> body.value]

\* extract_price_gemini(user_message) under the model outcome llm: whether
\* the call raises, and the value it returns.  The prompt is built from
\* user_message outside the try block; nothing else reads user_message.
extract_price_gemini(user_message, llm) ==
    LET body == GeminiTryBody(llm)
    IN  IF body.exc # ""
        THEN [raised |-> FALSE, value |-> None]
        ELSE [raised |-> FALSE, value |-> body.value]

\* ------------------------------------------------------------ the request

DefaultMargin == 20
DefaultPages == 5
DefaultStartPage == 1
\* pages = 5 in search
SearchPages == 5

\* SearchRequest(**body): the request object after pydantic's defaults; body
\* is a record of the fields the JSON body carries, each an optional value
\* (None for an explicit null)
Field(body, f, default) == IF f \in DOMAIN body THEN body[f] ELSE default

SearchRequest(body) ==
    [message    |-> Field(body, "message", Some(<<>>)),
     margin     |-> Field(body, "margin", Some(DefaultMargin)),
     pages      |-> Field(body, "pages", Some(DefaultPages)),
     minprice   |-> Field(body, "minprice", None),
     maxprice   |-> Field(body, "maxprice", None),
     start_page |-> Field(body, "start_page", Some(DefaultStartPage))]

\* ------------------------------------------------------------- the inputs

\* the most card elements the site renders during one get_cars call
MaxCards == 2
\* the largest document height the site reports
MaxHeight == 2
\* the most scroll steps of one scrolling phase the model tells apart
MaxScrolls == 2

Heights == 1..MaxHeight

Msg300 == <<"b", " ", "3", "0", "0">>

\* JSON bodies of POST /search
Bodies ==
    { [message |-> Some(Msg300)],
      [message |-> Some(Msg300), margin |-> Some(-20), start_page |-> Some(2)],
      [message |-> Some(Msg300), margin |-> None],
      [message |-> Some(Msg300), minprice |-> Some(200), maxprice |-> Some(300),
       pages |-> Some(1)],
      [minprice |-> Some(1), maxprice |-> Some(300)],
      [minprice |-> Some(400), maxprice |-> Some(200)],
      [message |-> Some(Msg300), minprice |-> Some(200)],
      [message |-> Some(Msg300), minprice |-> Some(200), margin |-> None],
      [message |-> None, maxprice |-> Some(300), margin |-> Some(10)] }

\* what the language model does on one call
LlmOutcomes ==
    { LlmOutcome(TRUE, None),
      LlmOutcome(FALSE, None),
      LlmOutcome(FALSE, Some(<<>>)),
      LlmOutcome(FALSE, Some(<<"N", "U", "L", "L">>)),
      LlmOutcome(FALSE, Some(<<" ", "n", "u", "l", "l", "TAB">>)),
      LlmOutcome(FALSE, Some(<<"a", "b", "a">>)),
      LlmOutcome(FALSE, Some(<<"3", "0", "0">>)),
      LlmOutcome(FALSE, Some(<<"a", " ", "3", "5", "0", " ", "n", "o", " ", "3", "0", "0">>)) }

\* direct calls get_cars(minprice, maxprice, start_page, pages)
GetCarsCalls ==
    { [minprice |-> 280, maxprice |-> 320, start_page |-> 1, pages |-> 3],
      [minprice |-> 200, maxprice |-> 300, start_page |-> 1, pages |-> 1],
      [minprice |-> 1, maxprice |-> 300, start_page |-> 2, pages |-> DefaultPages],
      [minprice |-> 500, maxprice |-> 500, start_page |-> 1, pages |-> 1],
      [minprice |-> 280, maxprice |-> 320, start_page |-> 1, pages |-> 0] }

\* the text of div.mr-1 as the browser gives it, None when the lookup fails
PriceTexts ==
    { None,
      Some(<<>>),
      Some(<<"1">>),
      Some(<<"1", "1", "1">>),
      Some(<<"1", "2", "3">>),
      Some(<<"2", "5", "0">>),
      Some(<<"2", "8", "0">>),
      Some(<<"3", "2", "0">>),
      Some(<<"5", "0", "0">>),
      Some(<<"2", " ", "5", "0">>),
      Some(<<" ", "3", "2", "0", "TAB">>),
      Some(<<"2", "TAB", "5", "0">>),
      Some(<<"2", "5", "0", " ", "M", "i", "l", "l", "i", "o", "n", "s">>),
      Some(<<"P", "r", "i", "x">>),
      Some(<<"SUP2">>) }

OtherFields == {"name", "location", "date", "url", "image"}

\* the sets of fields whose lookup fails on one card
FailPatterns == SUBSET OtherFields

\* one card element: what each lookup gives, None when it raises
Card(price_txt, fails) ==
    [name      |-> IF "name" \in fails THEN None ELSE Some(<<" ", "C", "4">>),
     price_txt |-> price_txt,
     location  |-> IF "location" \in fails THEN None ELSE Some(<<"O", "r", "a", "n", " ">>),
     date      |-> IF "date" \in fails THEN None ELSE Some(<<"1", "h">>),
     url       |-> IF "url" \in fails THEN None ELSE Some(<<"/", "c", "4">>),
     image     |-> IF "image" \in fails THEN None ELSE Some(<<"c", "4", ".", "w">>)]

\* the cards of the site: every price text with all other lookups
\* succeeding, and the price text 500 with every pattern of failing lookups
Cards ==
    { Card(t, {}) : t \in PriceTexts }
      \cup { Card(Some(<<"5", "0", "0">>), f) : f \in FailPatterns }

\* --------------------------------------------------------------- the state

VARIABLES
    pc,           \* where the handler or get_cars stands
    caller,       \* "search" or "direct": who called get_cars
    req,          \* search: the SearchRequest, None outside a search
    minprice,     \* search / get_cars: minprice (optional)
    maxprice,     \* search / get_cars: maxprice (optional)
    pages,        \* search / get_cars: pages
    start_page,   \* search / get_cars: start_page (optional)
    price,        \* search: what extract_price_gemini returned
    llm,          \* the language model's outcome, None while it was not called
    llmCalls,     \* calls of extract_price_gemini
    driver,       \* "none", "open" or "closed": the browser session
    sessions,     \* browser sessions created
    quits,        \* driver.quit() calls
    p,            \* get_cars: the page loop's index
    last_height,  \* get_cars: last_height
    scrolls,      \* scroll steps of the scrolling phase under way
    ncars,        \* get_cars: len(cars)
    i,            \* get_cars: cards of cars already handled
    rendered,     \* card elements the site has rendered so far
    data,         \* get_cars: data, one list per column
    clicks,       \* clicks of the next-page control
    extractions,  \* pages whose cards were collected
    exc,          \* the exception in flight, "" for none
    result,       \* what get_cars returned, None before
    response      \* the HTTP response of /search, None before

vars == <<pc, caller, req, minprice, maxprice, pages, start_page, price, llm,
          llmCalls, driver, sessions, quits, p, last_height, scrolls, ncars, i,
          rendered, data, clicks, extractions, exc, result, response>>

searchVars == <<req, price, llm, llmCalls, response>>
bandVars == <<minprice, maxprice, pages, start_page, caller>>
browserVars == <<driver, sessions, quits>>
pageVars == <<p, last_height, scrolls, ncars, i, rendered, clicks, extractions>>

Columns == {"name", "price", "location", "date", "url", "image"}

\* data = {"name": [], "price": [], ...}
EmptyData == [c \in Columns |-> <<>>]

Init ==
    /\ pc = "idle"
    /\ caller = "none"
    /\ req = None
    /\ minprice = None
    /\ maxprice = None
    /\ pages = 0
    /\ start_page = None
    /\ price = None
    /\ llm = None
    /\ llmCalls = 0
    /\ driver = "none"
    /\ sessions = 0
    /\ quits = 0
    /\ p = 0
    /\ last_height = 0
    /\ scrolls = 0
    /\ ncars = 0
    /\ i = 0
    /\ rendered = 0
    /\ data = EmptyData
    /\ clicks = 0
    /\ extractions = 0
    /\ exc = ""
    /\ result = None
    /\ response = None

\* ------------------------------------------------------------- POST /search

\* the uniform shape of an HTTP response
Response(status, q, count, results) ==
    Some([status |-> status, query |-> q, count |-> count, results |-> results])

\* if minprice is None or maxprice is None
NeedsExtraction(mn, mx) == mn = None \/ mx = None

\* the derived band without the margin above the price
DerivedBand_NoUpperMargin(pr, mg) == [min |-> pr - mg, max |-> pr]

\* minprice = price - margin; maxprice = price + margin
DerivedBand(pr, mg) == [min |-> pr - mg, max |-> pr + mg]

\* search, up to the test of the explicit bounds: the locals are read from
\* the request, and pages is set to 5
SearchBegin(body) ==
    /\ pc = "idle"
    /\ LET r == SearchRequest(body)
       IN  /\ req' = Some(r)
           /\ minprice' = r.minprice
           /\ maxprice' = r.maxprice
           /\ start_page' = r.start_page
    /\ pages' = SearchPages
    /\ caller' = "search"
    /\ pc' = "resolve"
    /\ UNCHANGED <<price, llm, llmCalls, response, browserVars, pageVars, data,
                   exc, result>>

\* the explicit band widened by the margin
ResolveExplicit_Widened ==
    /\ pc = "resolve"
    /\ ~NeedsExtraction(minprice, maxprice)
    /\ minprice' = Some(Val(minprice) - Val(Val(req).margin))
    /\ maxprice' = Some(Val(maxprice) + Val(Val(req).margin))
    /\ pc' = "build"
    /\ UNCHANGED <<searchVars, pages, start_page, caller, browserVars, pageVars,
                   data, exc, result>>

\* both bounds are given: int(minprice), int(maxprice), then get_cars is
\* called
ResolveExplicit ==
    /\ pc = "resolve"
    /\ ~NeedsExtraction(minprice, maxprice)
    /\ pc' = "build"
    /\ UNCHANGED <<searchVars, bandVars, browserVars, pageVars, data, exc, result>>

\* a missing price taken for the price 0
ResolveBand_ZeroPrice(value, mg) ==
    IF mg = None THEN [status |-> 500, band |-> DerivedBand(0, 0)]
    ELSE [status |-> 0,
          band |-> DerivedBand(IF value = None THEN 0 ELSE Val(value), Val(mg))]

\* what search does with the extracted price (an optional integer) and
\* the margin (an optional integer): status 400 without a price, status 500
\* for the TypeError of price - None, else (status 0) the derived band
ResolveBand(value, mg) ==
    IF value = None THEN [status |-> 400, band |-> DerivedBand(0, 0)]
    ELSE IF mg = None THEN [status |-> 500, band |-> DerivedBand(0, 0)]
    ELSE [status |-> 0, band |-> DerivedBand(Val(value), Val(mg))]

\* only the missing bound is derived from the price; a bound the request
\* supplied is kept
ResolveFromMessage_KeepSupplied(outcome) ==
    /\ pc = "resolve"
    /\ NeedsExtraction(minprice, maxprice)
    /\ LET r == extract_price_gemini(Val(req).message, outcome)
           b == ResolveBand(r.value, Val(req).margin)
       IN  /\ llm' = Some(outcome)
           /\ llmCalls' = llmCalls + 1
           /\ IF r.raised
              THEN /\ price' = price
                   /\ response' = Response(500, None, 0, None)
                   /\ pc' = "responded"
                   /\ UNCHANGED <<minprice, maxprice>>
              ELSE /\ price' = r.value
                   /\ IF b.status # 0
                      THEN /\ response' = Response(b.status, None, 0, None)
                           /\ pc' = "responded"
                           /\ UNCHANGED <<minprice, maxprice>>
                      ELSE /\ minprice' = IF minprice = None THEN Some(b.band.min)
                                          ELSE minprice
                           /\ maxprice' = IF maxprice = None THEN Some(b.band.max)
                                          ELSE maxprice
                           /\ pc' = "build"
                           /\ UNCHANGED response
    /\ UNCHANGED <<req, pages, start_page, caller, browserVars, pageVars, data,
                   exc, result>>

\* a bound is missing: the price is extracted from the message and the band
\* derived from it, or the request ends with an error status
ResolveFromMessage(outcome) ==
    /\ pc = "resolve"
    /\ NeedsExtraction(minprice, maxprice)
    /\ LET r == extract_price_gemini(Val(req).message, outcome)
           b == ResolveBand(r.value, Val(req).margin)
       IN  /\ llm' = Some(outcome)
           /\ llmCalls' = llmCalls + 1
           /\ IF r.raised
              THEN /\ price' = price
                   /\ response' = Response(500, None, 0, None)
                   /\ pc' = "responded"
                   /\ UNCHANGED <<minprice, maxprice>>
              ELSE /\ price' = r.value
                   /\ IF b.status # 0
                      THEN /\ response' = Response(b.status, None, 0, None)
                           /\ pc' = "responded"
                           /\ UNCHANGED <<minprice, maxprice>>
                      ELSE /\ minprice' = Some(b.band.min)
                           /\ maxprice' = Some(b.band.max)
                           /\ pc' = "build"
                           /\ UNCHANGED response
    /\ UNCHANGED <<req, pages, start_page, caller, browserVars, pageVars, data,
                   exc, result>>

\* get_cars returned to search: the response echoes the query and carries
\* len(results) as its count
Respond ==
    /\ pc = "returned"
    /\ caller = "search"
    /\ response' = Response(200,
                            Some([message |-> Val(req).message, min |-> Val(minprice),
                                  max |-> Val(maxprice), pages |-> pages]),
                            Cardinality(DOMAIN Val(result)),
                            result)
    /\ pc' = "responded"
    /\ UNCHANGED <<req, price, llm, llmCalls, bandVars, browserVars, pageVars,
                   data, exc, result>>

\* get_cars raised into search: the server answers with status 500
RespondError ==
    /\ pc = "raised"
    /\ caller = "search"
    /\ response' = Response(500, None, 0, None)
    /\ pc' = "responded"
    /\ UNCHANGED <<req, price, llm, llmCalls, bandVars, browserVars, pageVars,
                   data, exc, result>>

\* ---------------------------------------------------------------- get_cars

\* a direct call of get_cars
CallGetCars(args) ==
    /\ pc = "idle"
    /\ caller' = "direct"
    /\ minprice' = Some(args.minprice)
    /\ maxprice' = Some(args.maxprice)
    /\ start_page' = Some(args.start_page)
    /\ pages' = args.pages
    /\ pc' = "build"
    /\ UNCHANGED <<searchVars, browserVars, pageVars, data, exc, result>>

\* driver = webdriver.Chrome(...), before the try block, then data = {...}
BuildDriver(ok) ==
    /\ pc = "build"
    /\ IF ok
       THEN /\ driver' = "open"
            /\ sessions' = sessions + 1
            /\ data' = EmptyData
            /\ pc' = "get"
            /\ exc' = exc
       ELSE /\ exc' = "WebDriverException"
            /\ pc' = "raised"
            /\ UNCHANGED <<driver, sessions, data>>
    /\ UNCHANGED <<searchVars, bandVars, quits, pageVars, result>>

\* driver.get(url), then the first test of for p in range(pages)
Navigate ==
    /\ pc = "get"
    /\ p' = 0
    /\ pc' = IF 0 < pages THEN "wait" ELSE "finally"
    /\ UNCHANGED <<searchVars, bandVars, browserVars, last_height, scrolls, ncars,
                   i, rendered, clicks, extractions, data, exc, result>>

\* WebDriverWait(driver, 20).until(presence of cards) succeeds
WaitCards ==
    /\ pc = "wait"
    /\ pc' = "height"
    /\ UNCHANGED <<searchVars, bandVars, browserVars, pageVars, data, exc, result>>

\* last_height = document.body.scrollHeight
ReadHeight(h) ==
    /\ pc = "height"
    /\ last_height' = h
    /\ scrolls' = 0
    /\ pc' = "scroll"
    /\ UNCHANGED <<searchVars, bandVars, browserVars, p, ncars, i, rendered,
                   clicks, extractions, data, exc, result>>

\* the loop breaks only on the second equal read in a row
ScrollStep_ConfirmRead(new_height) ==
    /\ pc = "scroll"
    /\ scrolls' = IF scrolls < MaxScrolls THEN scrolls + 1 ELSE scrolls
    /\ IF new_height = last_height /\ scrolls >= 1
       THEN /\ pc' = "find"
            /\ last_height' = last_height
       ELSE /\ pc' = "scroll"
            /\ last_height' = new_height
    /\ UNCHANGED <<searchVars, bandVars, browserVars, p, ncars, i, rendered,
                   clicks, extractions, data, exc, result>>

\* one turn of while True: scroll, read new_height, break when it equals
\* last_height. The loop has no other exit and no step budget. The page
\* answers with any height: a page that keeps loading content is one whose
\* reads keep differing. scrolls counts the turns of this phase up to
\* MaxScrolls and then stays there.
ScrollStep(new_height) ==
    /\ pc = "scroll"
    /\ scrolls' = IF scrolls < MaxScrolls THEN scrolls + 1 ELSE scrolls
    /\ IF new_height = last_height
       THEN /\ pc' = "find"
            /\ last_height' = last_height
       ELSE /\ pc' = "scroll"
            /\ last_height' = new_height
    /\ UNCHANGED <<searchVars, bandVars, browserVars, p, ncars, i, rendered,
                   clicks, extractions, data, exc, result>>

\* cars = driver.find_elements(...); the scrolling phase is over: its step
\* count is forgotten, and so is last_height, which is not read again before
\* line 150 assigns it
FindCards(n) ==
    /\ pc = "find"
    /\ rendered + n <= MaxCards
    /\ ncars' = n
    /\ i' = 0
    /\ rendered' = rendered + n
    /\ extractions' = extractions + 1
    /\ scrolls' = 0
    /\ last_height' = 0
    /\ pc' = "card"
    /\ UNCHANGED <<searchVars, bandVars, browserVars, p, clicks, data, exc,
                   result>>

\* the exception leaves get_cars without passing through finally: the
\* session stays open
PageStepFails_NoFinally ==
    /\ pc \in {"get", "wait", "height", "scroll", "find"}
    /\ exc' = IF pc = "wait" THEN "TimeoutException" ELSE "WebDriverException"
    /\ pc' = "raised"
    /\ UNCHANGED <<searchVars, bandVars, browserVars, pageVars, data, result>>

\* driver.get, the card wait, a script or find_elements raises: the
\* exception leaves the try block
PageStepFails ==
    /\ pc \in {"get", "wait", "height", "scroll", "find"}
    /\ exc' = IF pc = "wait" THEN "TimeoutException" ELSE "WebDriverException"
    /\ pc' = "finally"
    /\ UNCHANGED <<searchVars, bandVars, browserVars, pageVars, data, result>>

\* price_num not in (111, 123)
SentinelPrices == {111, 123}

\* the band test with both ends excluded
InBand_Exclusive(n, lo, hi) == lo < n /\ n < hi

\* minprice <= price_num <= maxprice
InBand(n, lo, hi) == lo <= n /\ n <= hi

\* element.text.strip() of a lookup that may have raised
StripOpt(t) == IF t = None THEN None ELSE Some(Strip(Val(t)))

\* "validate & clean price": price_txt is the stripped text or None.  exc is
\* the exception int() raises ("" for none), emit tells whether the record
\* is appended, price is price_num.
ValidatePrice(price_txt, lo, hi) ==
    IF price_txt = None \/ Val(price_txt) = <<>>
    THEN [exc |-> "", emit |-> FALSE, price |-> 0]
    ELSE LET price_num == RemoveSpaces(Val(price_txt))
         IN  IF ~IsDigit(price_num)
             THEN [exc |-> "", emit |-> FALSE, price |-> 0]
             ELSE IF IntRaises(price_num)
             THEN [exc |-> "ValueError", emit |-> FALSE, price |-> 0]
             ELSE LET n == DecValue(price_num)
                  IN  [exc |-> "", emit |-> n \notin SentinelPrices /\ InBand(n, lo, hi),
                       price |-> n]

\* location and date looked up under one try: a failing location lookup
\* leaves date at None too
CardRecord_SharedTry(card, price_num) ==
    [name     |-> StripOpt(card.name),
     price    |-> price_num,
     location |-> StripOpt(card.location),
     date     |-> IF card.location = None THEN None ELSE StripOpt(card.date),
     url      |-> card.url,
     image    |-> card.image]

\* the six lookups on one card
CardRecord(card, price_num) ==
    [name     |-> StripOpt(card.name),
     price    |-> price_num,
     location |-> StripOpt(card.location),
     date     |-> StripOpt(card.date),
     url      |-> card.url,
     image    |-> card.image]

\* a column takes the value only when the lookup gave one
AppendRecord_SkipNone(d, rec) ==
    [c \in Columns |-> IF c # "price" /\ rec[c] = None
                       THEN d[c]
                       ELSE Append(d[c], rec[c])]

\* data["name"].append(name) ... data["image"].append(image)
AppendRecord(d, rec) == [c \in Columns |-> Append(d[c], rec[c])]

\* one turn of for car in cars
ExtractCard(card) ==
    /\ pc = "card"
    /\ i < ncars
    /\ LET v == ValidatePrice(StripOpt(card.price_txt), Val(minprice), Val(maxprice))
       IN  IF v.exc # ""
           THEN /\ exc' = v.exc
                /\ pc' = "finally"
                /\ UNCHANGED <<i, data>>
           ELSE /\ i' = i + 1
                /\ data' = IF v.emit THEN AppendRecord(data, CardRecord(card, v.price))
                           ELSE data
                /\ UNCHANGED <<pc, exc>>
    /\ UNCHANGED <<searchVars, bandVars, browserVars, p, last_height, scrolls,
                   ncars, rendered, clicks, extractions, result>>

NextControls == {"enabled", "disabled", "absent", "stale", "click_fails"}

\* the lookup of the control outside any try block: a missing control
\* raises out of the page loop
NextPage_RaiseOnMissing(ctl) ==
    /\ pc = "card"
    /\ i = ncars
    /\ p < pages - 1
    /\ IF ctl = "enabled"
       THEN /\ clicks' = clicks + 1
            /\ p' = p + 1
            /\ pc' = "wait"
            /\ exc' = exc
       ELSE /\ pc' = "finally"
            /\ exc' = IF ctl = "absent" THEN "NoSuchElementException" ELSE exc
            /\ UNCHANGED <<clicks, p>>
    /\ UNCHANGED <<searchVars, bandVars, browserVars, last_height, scrolls, ncars,
                   i, rendered, extractions, data, result>>

\* the page test off by one, p < pages: the control is looked up and clicked
\* on the last page of the budget too
NextPage_PastBudget(ctl) ==
    /\ pc = "card"
    /\ i = ncars
    /\ p < pages
    /\ IF ctl = "enabled"
       THEN /\ clicks' = clicks + 1
            /\ p' = p + 1
            /\ pc' = IF p + 1 < pages THEN "wait" ELSE "finally"
       ELSE /\ pc' = "finally"
            /\ UNCHANGED <<clicks, p>>
    /\ UNCHANGED <<searchVars, bandVars, browserVars, last_height, scrolls, ncars,
                   i, rendered, extractions, data, exc, result>>

\* "next page" on a page that is not the last of the budget: the control is
\* looked up; it is clicked when enabled; the loop is left when it is
\* disabled or when the lookup, is_enabled() or the click raises
NextPage(ctl) ==
    /\ pc = "card"
    /\ i = ncars
    /\ p < pages - 1
    /\ IF ctl = "enabled"
       THEN /\ clicks' = clicks + 1
            /\ p' = p + 1
            /\ pc' = "wait"
       ELSE /\ pc' = "finally"
            /\ UNCHANGED <<clicks, p>>
    /\ UNCHANGED <<searchVars, bandVars, browserVars, last_height, scrolls, ncars,
                   i, rendered, extractions, data, exc, result>>

\* the last page of the budget: no control is looked up, the for loop ends
LoopEnd ==
    /\ pc = "card"
    /\ i = ncars
    /\ ~(p < pages - 1)
    /\ pc' = "finally"
    /\ UNCHANGED <<searchVars, bandVars, browserVars, pageVars, data, exc, result>>

\* finally: driver.quit(); then the exception goes on, or data is returned
Finally ==
    /\ pc = "finally"
    /\ driver' = "closed"
    /\ quits' = quits + 1
    /\ IF exc # ""
       THEN /\ pc' = "raised"
            /\ result' = result
       ELSE /\ pc' = "returned"
            /\ result' = Some(data)
    /\ UNCHANGED <<searchVars, bandVars, sessions, pageVars, data, exc>>

Next ==
    \/ \E body \in Bodies : SearchBegin(body)
    \/ ResolveExplicit
    \/ \E outcome \in LlmOutcomes : ResolveFromMessage(outcome)
    \/ Respond
    \/ RespondError
    \/ \E args \in GetCarsCalls : CallGetCars(args)
    \/ \E ok \in BOOLEAN : BuildDriver(ok)
    \/ Navigate
    \/ WaitCards
    \/ \E h \in Heights : ReadHeight(h)
    \/ \E h \in Heights : ScrollStep(h)
    \/ \E n \in 0..MaxCards : FindCards(n)
    \/ PageStepFails
    \/ \E card \in Cards : ExtractCard(card)
    \/ \E ctl \in NextControls : NextPage(ctl)
    \/ LoopEnd
    \/ Finally

Spec == Init /\ [][Next]_vars

\* the request handler is one thread that runs until it returns or raises:
\* it never stops in the middle of a call
SpecFair == Spec /\ WF_vars(Next)

\* ------------------------------------- extract_price_gemini on every text

\* the longest model response considered
MaxLen == 4

TextAlphabet == {"N", "U", "L", "u", " ", "3", "0", "a"}

\* the texts of n characters
TextsOfLen(n) == [1..n -> TextAlphabet]

Texts == UNION {TextsOfLen(n) : n \in 0..MaxLen}

\* every outcome of the model call with a response of at most MaxLen
\* characters
AllLlmOutcomes ==
    {LlmOutcome(TRUE, None), LlmOutcome(FALSE, None)}
      \cup {LlmOutcome(FALSE, Some(t)) : t \in Texts}

UserMessages == {Msg300, <<"a", "b", "a">>}

\* a call price = extract_price_gemini(message) about to be made, with the
\* outcome the model call will have
InitExtract ==
    /\ pc = "extract"
    /\ caller = "none"
    /\ req \in {Some(SearchRequest([message |-> Some(m)])) : m \in UserMessages}
    /\ minprice = None
    /\ maxprice = None
    /\ pages = 0
    /\ start_page = None
    /\ price = None
    /\ llm \in {Some(o) : o \in AllLlmOutcomes}
    /\ llmCalls = 0
    /\ driver = "none"
    /\ sessions = 0
    /\ quits = 0
    /\ p = 0
    /\ last_height = 0
    /\ scrolls = 0
    /\ ncars = 0
    /\ i = 0
    /\ rendered = 0
    /\ data = EmptyData
    /\ clicks = 0
    /\ extractions = 0
    /\ exc = ""
    /\ result = None
    /\ response = None

\* price = extract_price_gemini(message)
ExtractCall ==
    /\ pc = "extract"
    /\ LET r == extract_price_gemini(Val(Val(req).message), Val(llm))
       IN  /\ price' = r.value
           /\ exc' = IF r.raised THEN "Exception" ELSE ""
    /\ llmCalls' = llmCalls + 1
    /\ pc' = "extracted"
    /\ UNCHANGED <<req, llm, response, bandVars, browserVars, pageVars, data, result>>

NextExtract == ExtractCall

SpecExtract == InitExtract /\ [][NextExtract]_vars

\* ---------------------------------------------------------------- claims

\* where get_cars stands, from its call to its end
GetCarsPcs ==
    {"build", "get", "wait", "height", "scroll", "find", "card", "finally",
     "returned", "raised"}

\* the states in which get_cars holds a data dictionary
HasData == driver # "none"

RECURSIVE Pow10(_)
Pow10(n) == IF n = 0 THEN 1 ELSE 10 * Pow10(n - 1)

RECURSIVE DigitSum(_, _, _)
\* the number written by the decimal digits t[a..b]
DigitSum(t, a, b) ==
    IF a > b THEN 0 ELSE DigitVal(t[a]) * Pow10(b - a) + DigitSum(t, a + 1, b)

\* a text that is a decimal integer and nothing else
PlainNumber(t) ==
    /\ t # None
    /\ Val(t) # <<>>
    /\ \A k \in 1..Len(Val(t)) : Val(t)[k] \in DecDigits

\* the sentinel prices the specification names
ClaimSentinels == {111, 123, 1}

C1_EmittedInBand ==
    HasData =>
        \A k \in 1..Len(data.price) :
            Val(minprice) <= data.price[k] /\ data.price[k] <= Val(maxprice)

\* the cards whose price text is a plain number, each with that number
PlainCards ==
    { [card |-> c, n |-> DigitSum(Val(c.price_txt), 1, Len(Val(c.price_txt)))] :
          c \in {d \in Cards : PlainNumber(d.price_txt)} }

C1_PlainInBandEmitted ==
    (pc = "card" /\ i < ncars) =>
        \A e \in PlainCards :
            (/\ e.n \notin ClaimSentinels
             /\ Val(minprice) <= e.n
             /\ e.n <= Val(maxprice)
             /\ ExtractCard(e.card))
            => data'.price = Append(data.price, e.n)

\* C1: every record get_cars has emitted has minprice <= price <= maxprice,
\* both ends included, and every card whose price text is a plain integer
\* in the band and not a sentinel is appended with that integer as its
\* price.
C1_PriceBand == []C1_EmittedInBand /\ [][C1_PlainInBandEmitted]_vars

\* C1, witness: under the band [200, 300] get_cars returned after two cards,
\* of which only the one priced 250 was emitted.
C1_Witness ==
    /\ pc = "returned"
    /\ minprice = Some(200)
    /\ maxprice = Some(300)
    /\ rendered = 2
    /\ Val(result).price = <<250>>

\* C2: no emitted record has the price 111, 123 or 1, whatever the band.
C2_NoSentinelEmitted ==
    HasData => \A k \in 1..Len(data.price) : data.price[k] \notin ClaimSentinels

\* the first digit run of a card's price text is in the band and is not a
\* sentinel
ParsesInBand(card) ==
    LET n == parse_price_to_int(StripOpt(card.price_txt))
    IN  /\ n # None
        /\ Val(n) \notin ClaimSentinels
        /\ Val(minprice) <= Val(n)
        /\ Val(n) <= Val(maxprice)

\* C3: a card whose price text holds a digit run is never excluded for
\* price-parsing reasons: when the first digit run of the text is in the
\* band and not a sentinel, the card is emitted with that integer as price.
C3_FirstDigitRunEmitted ==
    [][\A card \in Cards :
           (ExtractCard(card) /\ ParsesInBand(card))
           => data'.price =
                  Append(data.price, Val(parse_price_to_int(StripOpt(card.price_txt))))]_vars

\* the request of the search under way carries both bounds
ExplicitBand == caller = "search" /\ ~NeedsExtraction(Val(req).minprice, Val(req).maxprice)

\* the request of the search under way carries no bound
NoBounds == caller = "search" /\ Val(req).minprice = None /\ Val(req).maxprice = None

\* the search under way has answered with this status
Answered(status) == response # None /\ Val(response).status = status

\* C4: when the request carries both minprice and maxprice, the price
\* extractor is never called, the band get_cars works with is exactly the
\* request's, whatever the message and the margin, and the response echoes
\* that band.
C4_ExplicitBandUnchanged ==
    ExplicitBand =>
        /\ llmCalls = 0
        /\ llm = None
        /\ minprice = Val(req).minprice
        /\ maxprice = Val(req).maxprice
        /\ Answered(200) =>
               /\ Val(Val(response).query).min = Val(Val(req).minprice)
               /\ Val(Val(response).query).max = Val(Val(req).maxprice)

\* C4, witness: a request with a message, the default margin and the bounds
\* 200 and 300 was answered with the band {200, 300}.
C4_Witness ==
    /\ Answered(200)
    /\ Val(req).message = Some(Msg300)
    /\ Val(req).margin = Some(20)
    /\ Val(Val(response).query).min = 200
    /\ Val(Val(response).query).max = 300
    /\ sessions = 1

\* C5: when the request carries no bound and the extractor returned the
\* price p, the band is {p - margin, p + margin}, and the margin is 20 when
\* the body does not carry one.
C5_DerivedBand ==
    (NoBounds /\ pc # "resolve" /\ price # None /\ Val(req).margin # None) =>
        /\ minprice = Some(Val(price) - Val(Val(req).margin))
        /\ maxprice = Some(Val(price) + Val(Val(req).margin))
        /\ \A body \in Bodies :
               ("margin" \notin DOMAIN body /\ req = Some(SearchRequest(body))) =>
                   /\ minprice = Some(Val(price) - 20)
                   /\ maxprice = Some(Val(price) + 20)

\* C5, witness: a body with a message alone, the extractor returned 300, and
\* the response echoes the band {280, 320}.
C5_Witness ==
    /\ Answered(200)
    /\ req = Some(SearchRequest([message |-> Some(Msg300)]))
    /\ price = Some(300)
    /\ Val(Val(response).query).min = 280
    /\ Val(Val(response).query).max = 320

\* C6: get_cars never runs without a resolved band, and when a bound is
\* missing and the extractor returns NotFound the search ends with status
\* 400, no browser session was created and get_cars was not called.
C6_NoScrapeWithoutBand ==
    /\ (pc \in GetCarsPcs \/ sessions > 0) => (minprice # None /\ maxprice # None)
    /\ (/\ caller = "search"
        /\ NeedsExtraction(Val(req).minprice, Val(req).maxprice)
        /\ llm # None
        /\ price = None)
       => /\ pc = "responded"
          /\ Answered(400)
          /\ sessions = 0
          /\ driver = "none"
          /\ extractions = 0
          /\ result = None

\* C6, witness: the model answered NULL and the search ended with status 400.
C6_Witness ==
    /\ Answered(400)
    /\ llm = Some(LlmOutcome(FALSE, Some(NULL)))
    /\ llmCalls = 1

\* C7: every band search passes to get_cars has min <= max.
C7_BandOrdered ==
    (caller = "search" /\ pc \in GetCarsPcs) => Val(minprice) <= Val(maxprice)

Min(S) == CHOOSE x \in S : \A y \in S : x <= y
Max(S) == CHOOSE x \in S : \A y \in S : y <= x

\* the places of a text that hold no whitespace, and those that hold a digit
NonBlankAt(t) == {k \in 1..Len(t) : ~IsSpaceChar(t[k])}
DigitAt(t) == {k \in 1..Len(t) : t[k] \in DecDigits}

\* the text without the whitespace around it
Trimmed(t) ==
    IF NonBlankAt(t) = {} THEN <<>> ELSE SubSeq(t, Min(NonBlankAt(t)), Max(NonBlankAt(t)))

\* the token NULL, in any case
IsNullToken(t) ==
    /\ Len(t) = 4
    /\ t[1] \in {"N", "n"}
    /\ t[2] \in {"U", "u"}
    /\ t[3] \in {"L", "l"}
    /\ t[4] \in {"L", "l"}

\* the number written by the first run of digits of a text that has a digit
FirstRunValue(t) ==
    LET a == Min(DigitAt(t))
        b == Max({k \in a..Len(t) : \A j \in a..k : t[j] \in DecDigits})
    IN  DigitSum(t, a, b)

\* the text of the model's response, empty when it has none
ResponseText(o) == IF o.text = None THEN <<>> ELSE Val(o.text)

C9_FallsBackOnMessage ==
    (/\ pc = "extracted"
     /\ Val(llm).raises \/ Trimmed(ResponseText(Val(llm))) = <<>>
     /\ DigitAt(Val(Val(req).message)) # {})
    => price = Some(FirstRunValue(Val(Val(req).message)))

\* get_cars left the page loop by a break, before the last page of its budget
BrokeOut == pc \in {"finally", "returned"} /\ exc = "" /\ p < pages - 1

C10_BreakStep ==
    \A ctl \in {"absent", "disabled"} :
        NextPage(ctl) =>
            /\ pc' = "finally"
            /\ exc' = ""
            /\ data' = data
            /\ clicks' = clicks
            /\ extractions' = extractions

C10_AfterBreak ==
    BrokeOut =>
        /\ extractions = p + 1
        /\ clicks = p
        /\ pc = "returned" => result = Some(data)

C10_BreakReturns ==
    (BrokeOut /\ pc = "finally") =>
        /\ pc' = "returned"
        /\ result' = Some(data)
        /\ clicks' = clicks
        /\ extractions' = extractions

\* C10: when the next-page control is absent or disabled after page k, with
\* k below the page budget, the page loop ends without an error, nothing more
\* is clicked or extracted, and get_cars returns the records collected on
\* the pages 1..k.
C10_StopsAtLastPage ==
    /\ [][C10_BreakStep]_vars
    /\ []C10_AfterBreak
    /\ [][C10_BreakReturns]_vars

\* C10, witness: get_cars(pages = 3) returned the one record of page 1 after
\* a single extraction and no click.
C10_Witness ==
    /\ pc = "returned"
    /\ pages = 3
    /\ p = 0
    /\ extractions = 1
    /\ clicks = 0
    /\ Len(Val(result).price) = 1

\* ------------------------------------------------------------ page budget

\* C11: a search that asks for n pages extracts cards on at most n pages,
\* whatever the site's next control does.
C11_PageBudgetHonoured ==
    (caller = "search" /\ req # None /\ Val(req).pages # None)
        => extractions <= Val(Val(req).pages)

\* ------------------------------------------------------- partial results

\* the exceptions of the page-level steps (navigation, card wait, scripts,
\* find_elements)
PageExcs == {"TimeoutException", "WebDriverException"}

\* the get_cars call is over
CallEnded == pc \in {"returned", "raised", "responded"}

\* C12: when a page-level step fails on a page after the first, the call
\* still returns the records collected so far and the failure is not raised
\* again; the error reaches the caller only from the first page.
C12_PartialResultKept ==
    (CallEnded /\ sessions = 1 /\ exc \in PageExcs /\ p >= 1
        /\ Len(data.price) > 0)
        => (pc # "raised" /\ result = Some(data))

\* -------------------------------------------------------- browser session

\* C13: every browser session get_cars acquires is released exactly once
\* when the call ends, on every path out of it (return, early stop, an
\* exception of navigation, wait, scrolling or clicking), and no execution
\* ends with a session open: while the session is open the call has a next
\* step, and the step that ends the call is the one that quits.
C13_SessionReleasedOnce ==
    /\ sessions <= 1
    /\ quits <= sessions
    /\ (driver = "open") <=> (sessions = 1 /\ quits = 0)
    /\ (driver = "closed") <=> (sessions = 1 /\ quits = 1)
    /\ CallEnded => (driver # "open" /\ quits = sessions)
    /\ driver = "open" => (pc \in GetCarsPcs /\ ~CallEnded /\ ENABLED Next)

\* a call that failed in the card wait of its second page, after an enabled
\* next control was clicked, has released its one session
C13_Witness ==
    /\ pc = "raised"
    /\ exc = "TimeoutException"
    /\ p = 1
    /\ clicks = 1
    /\ sessions = 1
    /\ quits = 1
    /\ driver = "closed"

\* --------------------------------------------------------- scrolling phase

\* C14: the scrolling phase of every page terminates: once the call is
\* scrolling a page it eventually leaves the scroll loop, even on a page
\* whose height differs on every read.
C14_ScrollingTerminates == (pc = "scroll") ~> (pc # "scroll")

\* ---------------------------------------------------------- response body

\* C15: the count of a search response equals the number of listing records
\* it returns, and the min and max it echoes are the band get_cars was
\* called with.
C15_CountIsRecords ==
    Answered(200) =>
        /\ Val(response).count = Len(Val(Val(response).results).price)
        /\ Val(Val(response).query).min = Val(minprice)
        /\ Val(Val(response).query).max = Val(maxprice)

\* ------------------------------------------------------- optional fields

\* what a record of the model's card carries in a field whose lookup
\* succeeded: the text without its surrounding blanks, the attribute as it is
FieldValue(f) ==
    CASE f = "name"     -> <<"C", "4">>
      [] f = "location" -> <<"O", "r", "a", "n">>
      [] f = "date"     -> <<"1", "h">>
      [] f = "url"      -> <<"/", "c", "4">>
      [] f = "image"    -> <<"c", "4", ".", "w">>

\* the last record of the columns d has price n, None in the fields of
\* fails and the extracted value in the other fields
LastRecordIs(d, n, fails) ==
    /\ Len(d.price) > 0
    /\ d.price[Len(d.price)] = n
    /\ \A f \in OtherFields :
          /\ Len(d[f]) > 0
          /\ d[f][Len(d[f])] = IF f \in fails THEN None ELSE Some(FieldValue(f))

\* C16: every emitted record has an integer price, and the other five fields
\* are optional one by one: a card priced 500 inside the band whose name,
\* location, date, url and image lookups fail in any combination is still
\* emitted, with None in exactly the failed fields and the extracted values
\* in the others.
C16_OptionalFields ==
    /\ [](\A k \in 1..Len(data.price) : data.price[k] \in Nat)
    /\ [][(pc = "card" /\ i < ncars /\ InBand(500, Val(minprice), Val(maxprice)))
            => \A fails \in FailPatterns :
                  ExtractCard(Card(Some(<<"5", "0", "0">>), fails))
                      => /\ Len(data'.price) = Len(data.price) + 1
                         /\ LastRecordIs(data', 500, fails)]_vars

\* a returned call whose two records are a card with no name and no image
\* and a card on which only the date was found
C16_Witness ==
    /\ pc = "returned"
    /\ Len(data.price) = 2
    /\ data.price = <<500, 500>>
    /\ data.name = <<None, None>>
    /\ data.image = <<None, None>>
    /\ data.location = <<Some(FieldValue("location")), None>>
    /\ data.url = <<Some(FieldValue("url")), None>>
    /\ data.date = <<Some(FieldValue("date")), Some(FieldValue("date"))>>

\* --------------------------------------------------------- scroll loop exit

\* C17: the scroll loop stops as soon as two height reads in a row are
\* equal, with no further scroll step, and goes on while they differ; on a
\* page whose height never changes exactly one scroll step is performed
\* before the cards are collected.
C17_StopsOnEqualReads ==
    /\ [](pc = "find" => scrolls >= 1)
    /\ [][pc = "scroll"
            => \A h \in Heights :
                  ScrollStep(h)
                      => IF h = last_height
                         THEN /\ pc' = "find"
                              /\ scrolls = 0 => scrolls' = 1
                         ELSE /\ pc' = "scroll"
                              /\ last_height' = h]_vars
    /\ [][pc = "find" => (pc' # "scroll" /\ scrolls' <= scrolls)]_vars

\* the second page kept its height: one scroll step, and the cards are about
\* to be collected
C17_Witness ==
    /\ pc = "find"
    /\ p = 1
    /\ scrolls = 1

\* ------------------------------------------------------------ click budget

\* C18: in get_cars(pages = n) the next control is clicked at most n - 1
\* times and never after the last page of the budget has been extracted; at
\* every point the pages extracted are at most the clicks plus one; and each
\* click comes after the extraction of the page it leaves.
C18_ClickBudget ==
    /\ [](/\ (clicks = 0 \/ clicks <= pages - 1)
          /\ extractions <= clicks + 1
          /\ extractions <= pages)
    /\ [][clicks' # clicks
            => /\ clicks' = clicks + 1
               /\ pc = "card" /\ i = ncars
               /\ p < pages - 1
               /\ extractions = p + 1
               /\ extractions = clicks + 1
               /\ extractions' = extractions]_vars

\* a call with a budget of three pages that clicked twice, extracted three
\* pages and returned
C18_Witness ==
    /\ pc = "returned"
    /\ pages = 3
    /\ clicks = 2
    /\ extractions = 3

\* --------------------------------------------------------- parallel columns

\* the six columns of d have one length
SameLength(d) == \A c \in Columns : Len(d[c]) = Len(d.price)

\* C19: the six columns of data have equal length in every state between
\* cards; a card appends one entry to each of the six columns or to none;
\* the entries are appended at the end, so earlier records keep their index
\* (page order, then card order), and the six entries of one index come
\* from one card.
C19_ParallelColumns ==
    /\ [](SameLength(data) /\ (result # None => Val(result) = data))
    /\ [][data' # data
            => /\ pc = "card" /\ i' = i + 1
               /\ \A c \in Columns :
                     /\ Len(data'[c]) = Len(data[c]) + 1
                     /\ SubSeq(data'[c], 1, Len(data[c])) = data[c]
               /\ \E card \in Cards :
                     /\ ExtractCard(card)
                     /\ \A f \in OtherFields :
                           (data'[f][Len(data'[f])] = None) <=> (card[f] = None)]_vars

\* two pages gave one record each: the card of the first page, then the
\* card of the second page
C19_Witness ==
    /\ pc = "returned"
    /\ clicks = 1
    /\ data.price = <<280, 320>>
    /\ data.name = <<Some(FieldValue("name")), Some(FieldValue("name"))>>
    /\ SameLength(data)

\* ------------------------------------------------------ one explicit bound

\* the request of the search under way carries exactly one of the two bounds
ExactlyOneBound ==
    /\ caller = "search"
    /\ (Val(req).minprice = None) # (Val(req).maxprice = None)

\* C20: when the request carries exactly one of minprice and maxprice, the
\* extractor is called on the message and the supplied bound is not used:
\* with a price and an integer margin both bounds become price - margin and
\* price + margin, and these are the bounds get_cars runs with and the
\* response echoes; without a price the request ends with status 400 and no
\* browser session; no session ever runs with a band that keeps the
\* supplied bound next to a derived one.
C20_SuppliedBoundDiscarded ==
    (ExactlyOneBound /\ pc # "resolve") =>
        /\ llmCalls = 1
        /\ llm # None
        /\ price = None => (Answered(400) /\ sessions = 0)
        /\ (price # None /\ Val(req).margin # None) =>
              /\ minprice = Some(Val(price) - Val(Val(req).margin))
              /\ maxprice = Some(Val(price) + Val(Val(req).margin))
              /\ ~Answered(400)
              /\ Answered(200) =>
                    /\ Val(Val(response).query).min = Val(price) - Val(Val(req).margin)
                    /\ Val(Val(response).query).max = Val(price) + Val(Val(req).margin)
        /\ sessions > 0 =>
              /\ price # None
              /\ Val(req).margin # None
              /\ Val(maxprice) - Val(minprice) = 2 * Val(Val(req).margin)

\* the body carried minprice 200 and the message "b 300": the search answered
\* with the band {280, 320}, not {200, 320}
C20_Witness ==
    /\ Answered(200)
    /\ req = Some(SearchRequest([message |-> Some(Msg300), minprice |-> Some(200)]))
    /\ price = Some(300)
    /\ minprice = Some(280)
    /\ maxprice = Some(320)
    /\ Val(Val(response).query).min = 280

====
